---- MODULE Spec2Model ----
(***************************************************************************)
(* Model of expand_and_compare_genes.py: a synonym index is loaded from a  *)
(* tab-delimited reference table, gene list A is expanded through it, and  *)
(* every gene of list B is looked up in the index and tested against the   *)
(* expanded list A.                                                        *)
(*                                                                         *)
(* Strings are sequences of character codes (32 ' ', 65 'A', 66 'B',       *)
(* 97 'a', 98 'b', 124 '|'), so that strip, lower, split, sorted and join  *)
(* are computed, not assumed.                                              *)
(***************************************************************************)
EXTENDS Integers, Sequences, FiniteSets, TLC

VARIABLES pc, gene_info, file_a_status, file_b_status, gene_dict,
          file_a_genes, file_b_genes, expanded_file_a, todo, output,
          written, exc, exit_status, trace, calls

vars == <<pc, gene_info, file_a_status, file_b_status, gene_dict,
          file_a_genes, file_b_genes, expanded_file_a, todo, output,
          written, exc, exit_status, trace, calls>>

----------------------------------------------------------------------------
(* Bounds *)

MaxRows == 2
MaxLines == 2
MaxCalls == 2

(* The separator of the Synonyms column and of the Synonyms output field. *)
BAR == 124

----------------------------------------------------------------------------
(* String helpers: str.lower, str.strip, str.split('|'), '|'.join, sorted *)

Range(s) == {s[i] : i \in 1..Len(s)}

LowerChar(c) == IF c \in 65..90 THEN c + 32 ELSE c

Lower(s) == [i \in 1..Len(s) |-> LowerChar(s[i])]

IsSpace(c) == c = 32

RECURSIVE LStrip(_)
LStrip(s) ==
    IF s # <<>> /\ IsSpace(Head(s)) THEN LStrip(Tail(s)) ELSE s

RECURSIVE RStrip(_)
RStrip(s) ==
    IF s # <<>> /\ IsSpace(s[Len(s)])
    THEN RStrip(SubSeq(s, 1, Len(s) - 1))
    ELSE s

Strip(s) == RStrip(LStrip(s))

(* s.split('|'): the pieces between separators, empty pieces included;    *)
(* ''.split('|') is [''].                                                  *)
RECURSIVE SplitFrom(_, _, _)
SplitFrom(s, i, cur) ==
    IF i > Len(s) THEN <<cur>>
    ELSE IF s[i] = BAR THEN <<cur>> \o SplitFrom(s, i + 1, <<>>)
    ELSE SplitFrom(s, i + 1, Append(cur, s[i]))

Split(s) == SplitFrom(s, 1, <<>>)

RECURSIVE Join(_)
Join(ss) ==
    IF ss = <<>> THEN <<>>
    ELSE IF Len(ss) = 1 THEN ss[1]
    ELSE ss[1] \o <<BAR>> \o Join(Tail(ss))

(* Python's str ordering: code point by code point, a proper prefix first. *)
RECURSIVE StrLess(_, _)
StrLess(s, t) ==
    IF t = <<>> THEN FALSE
    ELSE IF s = <<>> THEN TRUE
    ELSE IF Head(s) # Head(t) THEN Head(s) < Head(t)
    ELSE StrLess(Tail(s), Tail(t))

RECURSIVE Sorted(_)
Sorted(S) ==
    IF S = {} THEN <<>>
    ELSE LET m == CHOOSE x \in S : \A y \in S \ {x} : StrLess(x, y)
         IN  <<m>> \o Sorted(S \ {m})

Str(b) == IF b THEN "True" ELSE "False"

----------------------------------------------------------------------------
(* Inputs *)

(* Raw Symbol cells: "a", " B" *)
SymbolCells == { <<97>>, <<32, 66>> }

(* Raw Synonyms cells: "", "b", "a|ab", " |B" *)
SynonymsCells == { <<>>, <<98>>, <<97, 124, 97, 98>>, <<32, 124, 66>> }

TableRows == [Symbol : SymbolCells, Synonyms : SynonymsCells]

RECURSIVE SeqsUpTo(_, _)
SeqsUpTo(S, n) ==
    IF n = 0 THEN { <<>> }
    ELSE LET shorter == SeqsUpTo(S, n - 1)
         IN  shorter \cup { Append(s, x) : s \in shorter, x \in S }

(* The reference table as found on disk. *)
GeneInfoFiles ==
    { [status |-> "ok", rows |-> r] : r \in SeqsUpTo(TableRows, MaxRows) }
    \cup { [status |-> st, rows |-> <<>>] : st \in {"unreadable", "missing_columns"} }

(* Raw lines of a gene list: "", "a", " B", "ab" *)
RawLines == { <<>>, <<97>>, <<32, 66>>, <<97, 98>> }

GeneFiles ==
    { [status |-> "ok", lines |-> l] : l \in SeqsUpTo(RawLines, MaxLines) }
    \cup { [status |-> "unreadable", lines |-> <<>>] }

NoFile == "no_file"

----------------------------------------------------------------------------
(* load_gene_info *)

(* dict.__setitem__ on an insertion-ordered dict *)
DictPut(d, k, v) ==
    IF \E i \in 1..Len(d) : d[i].key = k
    THEN [i \in 1..Len(d) |-> IF d[i].key = k THEN [key |-> k, syns |-> v] ELSE d[i]]
    ELSE Append(d, [key |-> k, syns |-> v])

HasKey(d, k) == \E i \in 1..Len(d) : d[i].key = k

DictGet(d, k) == d[CHOOSE i \in 1..Len(d) : d[i].key = k].syns

RowSynonyms(cell) ==
    IF cell # <<>>
    THEN LET pieces == Split(cell)
         IN  { Lower(Strip(pieces[i])) : i \in 1..Len(pieces) }
    ELSE {}

RowKey(cell) == Lower(Strip(cell))

RECURSIVE LoadRows(_, _)
LoadRows(rows, d) ==
    IF rows = <<>> THEN d
    ELSE LoadRows(Tail(rows),
                  DictPut(d, RowKey(Head(rows).Symbol), RowSynonyms(Head(rows).Synonyms)))

----------------------------------------------------------------------------
(* read_gene_file *)

ReadLines(lines) ==
    { Lower(Strip(lines[i])) : i \in {j \in 1..Len(lines) : Strip(lines[j]) # <<>>} }

----------------------------------------------------------------------------
(* expand_gene_set_with_synonyms *)

RECURSIVE ExpandLoop(_, _, _)
ExpandLoop(rest, d, expanded_set) ==
    IF rest = {} THEN expanded_set
    ELSE LET gene == CHOOSE g \in rest : TRUE
             added == expanded_set \cup {gene}
         IN  ExpandLoop(rest \ {gene}, d,
                        IF HasKey(d, gene) THEN added \cup DictGet(d, gene) ELSE added)

(* Variant: a member that is a synonym also pulls in its key and siblings. *)
expand_symmetric(gene_set, d) ==
    gene_set \cup UNION { {d[i].key} \cup d[i].syns :
                            i \in {j \in 1..Len(d) :
                                     d[j].key \in gene_set \/ d[j].syns \cap gene_set # {}} }

(* Variant: the gene itself is not added, only the synonyms of keys. *)
expand_synonyms_only(gene_set, d) ==
    UNION { d[i].syns : i \in {j \in 1..Len(d) : d[j].key \in gene_set} }

expand_gene_set_with_synonyms(gene_set, d) == ExpandLoop(gene_set, d, {})

----------------------------------------------------------------------------
(* compare_files: one iteration of the loop over file_b_genes *)

(* Variant: the inner loop has no break, the last matching entry is kept. *)
RECURSIVE MatchLast(_, _, _)
MatchLast(d, gene_b, i) ==
    IF i > Len(d) THEN 0
    ELSE LET later == MatchLast(d, gene_b, i + 1)
         IN  IF later # 0 THEN later
             ELSE IF gene_b = d[i].key \/ gene_b \in d[i].syns THEN i
             ELSE 0

(* The inner loop over gene_dict.items(): index of the entry at which the  *)
(* loop breaks, 0 when it runs to the end.                                 *)
RECURSIVE MatchFrom(_, _, _)
MatchFrom(d, gene_b, i) ==
    IF i > Len(d) THEN 0
    ELSE IF gene_b = d[i].key \/ gene_b \in d[i].syns THEN i
    ELSE MatchFrom(d, gene_b, i + 1)

(* Variant: presence is decided by the synonyms alone, the matched key is  *)
(* not looked up in the expanded set.                                      *)
CompareRecordSynonymsOnly(d, expanded, gene_b) ==
    LET i == MatchFrom(d, gene_b, 1)
        synonyms_b == IF i = 0 THEN {} ELSE {d[i].key} \cup d[i].syns
        present_in_a ==
            IF i = 0 THEN FALSE
            ELSE \E syn \in d[i].syns : syn \in expanded
    IN  [Gene |-> gene_b,
         Synonyms |-> Join(Sorted(synonyms_b \ {gene_b})),
         Present_in_A |-> Str(present_in_a)]

(* Variant: gene_b is not discarded from its own synonyms. *)
CompareRecordKeepSelf(d, expanded, gene_b) ==
    LET i == MatchFrom(d, gene_b, 1)
        synonyms_b == IF i = 0 THEN {} ELSE {d[i].key} \cup d[i].syns
        present_in_a ==
            IF i = 0 THEN FALSE
            ELSE d[i].key \in expanded \/ \E syn \in d[i].syns : syn \in expanded
    IN  [Gene |-> gene_b,
         Synonyms |-> Join(Sorted(synonyms_b)),
         Present_in_A |-> Str(present_in_a)]

CompareRecord(d, expanded, gene_b) ==
    LET i == MatchFrom(d, gene_b, 1)
        synonyms_b == IF i = 0 THEN {} ELSE {d[i].key} \cup d[i].syns
        present_in_a ==
            IF i = 0 THEN FALSE
            ELSE d[i].key \in expanded \/ \E syn \in d[i].syns : syn \in expanded
    IN  [Gene |-> gene_b,
         Synonyms |-> Join(Sorted(synonyms_b \ {gene_b})),
         Present_in_A |-> Str(present_in_a)]

----------------------------------------------------------------------------
(* main *)

Init ==
    /\ pc = "parse_args"
    /\ gene_info = [status |-> "unread", rows |-> <<>>]
    /\ file_a_status = "unread"
    /\ file_b_status = "unread"
    /\ gene_dict = <<>>
    /\ file_a_genes = {}
    /\ file_b_genes = {}
    /\ expanded_file_a = {}
    /\ todo = {}
    /\ output = <<>>
    /\ written = NoFile
    /\ exc = "none"
    /\ exit_status = -1
    /\ trace = <<>>
    /\ calls = 0

(* argparse rejects a missing required option with status 2; an empty     *)
(* --gene_info value takes the sys.exit(1) branch.                         *)
ParseArgs ==
    /\ pc = "parse_args"
    /\ \E args \in {"ok", "missing_option", "empty_gene_info"} :
         /\ pc' = IF args = "ok" THEN "load" ELSE "exit"
         /\ exit_status' = CASE args = "ok" -> exit_status
                             [] args = "missing_option" -> 2
                             [] args = "empty_gene_info" -> 1
    /\ UNCHANGED <<gene_info, file_a_status, file_b_status, gene_dict, file_a_genes, file_b_genes,
                   expanded_file_a, todo, output, written, exc, trace, calls>>

LoadGeneInfo ==
    /\ pc = "load"
    /\ \E f \in GeneInfoFiles :
         /\ gene_info' = f
         /\ trace' = Append(trace, "load_gene_info")
         /\ IF f.status = "ok"
            THEN /\ gene_dict' = LoadRows(f.rows, <<>>)
                 /\ pc' = "read_a"
                 /\ exc' = exc
            ELSE /\ gene_dict' = gene_dict
                 /\ pc' = "except"
                 /\ exc' = IF f.status = "unreadable" THEN "OSError" ELSE "ValueError"
    /\ UNCHANGED <<file_a_status, file_b_status, file_a_genes, file_b_genes,
                   expanded_file_a, todo, output, written, exit_status, calls>>

ReadFileA ==
    /\ pc = "read_a"
    /\ \E f \in GeneFiles :
         /\ file_a_status' = f.status
         /\ trace' = Append(trace, "read_file_a")
         /\ IF f.status = "ok"
            THEN /\ file_a_genes' = ReadLines(f.lines)
                 /\ pc' = "read_b"
                 /\ exc' = exc
            ELSE /\ file_a_genes' = file_a_genes
                 /\ pc' = "except"
                 /\ exc' = "OSError"
    /\ UNCHANGED <<gene_info, file_b_status, gene_dict, file_b_genes,
                   expanded_file_a, todo, output, written, exit_status, calls>>

(* Variant: an unreadable file B is taken as an empty gene list. *)
ReadFileBSwallow ==
    /\ pc = "read_b"
    /\ \E f \in GeneFiles :
         /\ file_b_status' = f.status
         /\ trace' = Append(trace, "read_file_b")
         /\ file_b_genes' = ReadLines(f.lines)
         /\ pc' = "compare"
         /\ exc' = exc
    /\ UNCHANGED <<gene_info, file_a_status, gene_dict, file_a_genes,
                   expanded_file_a, todo, output, written, exit_status, calls>>

ReadFileB ==
    /\ pc = "read_b"
    /\ \E f \in GeneFiles :
         /\ file_b_status' = f.status
         /\ trace' = Append(trace, "read_file_b")
         /\ IF f.status = "ok"
            THEN /\ file_b_genes' = ReadLines(f.lines)
                 /\ pc' = "compare"
                 /\ exc' = exc
            ELSE /\ file_b_genes' = file_b_genes
                 /\ pc' = "except"
                 /\ exc' = "OSError"
    /\ UNCHANGED <<gene_info, file_a_status, gene_dict, file_a_genes,
                   expanded_file_a, todo, output, written, exit_status, calls>>

(* Entry of compare_files: expand file A, start with an empty output. *)
CompareFiles ==
    /\ pc = "compare"
    /\ trace' = Append(trace, "compare_files")
    /\ expanded_file_a' = expand_gene_set_with_synonyms(file_a_genes, gene_dict)
    /\ output' = <<>>
    /\ todo' = file_b_genes
    /\ pc' = "compare_loop"
    /\ UNCHANGED <<gene_info, file_a_status, file_b_status, gene_dict, file_a_genes, file_b_genes, written,
                   exc, exit_status, calls>>

(* Variant: a gene that matches no index entry gets no record. *)
CompareGeneSkipUnmatched ==
    /\ pc = "compare_loop"
    /\ \E gene_b \in todo :
         /\ output' = IF MatchFrom(gene_dict, gene_b, 1) = 0 THEN output
                      ELSE Append(output, CompareRecord(gene_dict, expanded_file_a, gene_b))
         /\ todo' = todo \ {gene_b}
    /\ UNCHANGED <<pc, gene_info, file_a_status, file_b_status, gene_dict,
                   file_a_genes, file_b_genes, expanded_file_a, written, exc,
                   exit_status, trace, calls>>

(* One iteration of "for gene_b in file_b_genes"; a set iterates in an    *)
(* order the program does not control.                                    *)
CompareGene ==
    /\ pc = "compare_loop"
    /\ \E gene_b \in todo :
         /\ output' = Append(output, CompareRecord(gene_dict, expanded_file_a, gene_b))
         /\ todo' = todo \ {gene_b}
    /\ UNCHANGED <<pc, gene_info, file_a_status, file_b_status, gene_dict, file_a_genes, file_b_genes,
                   expanded_file_a, written, exc, exit_status, trace, calls>>

CompareReturn ==
    /\ pc = "compare_loop"
    /\ todo = {}
    /\ pc' = "write"
    /\ UNCHANGED <<gene_info, file_a_status, file_b_status, gene_dict, file_a_genes, file_b_genes,
                   expanded_file_a, todo, output, written, exc, exit_status,
                   trace, calls>>

(* write_output, then the end of the try block: main returns. *)
WriteOutput ==
    /\ pc = "write"
    /\ trace' = Append(trace, "write_output")
    /\ \E writable \in BOOLEAN :
         IF writable
         THEN /\ written' = output
              /\ pc' = "exit"
              /\ exit_status' = 0
              /\ exc' = exc
         ELSE /\ written' = written
              /\ pc' = "except"
              /\ exit_status' = exit_status
              /\ exc' = "OSError"
    /\ UNCHANGED <<gene_info, file_a_status, file_b_status, gene_dict, file_a_genes, file_b_genes,
                   expanded_file_a, todo, output, calls>>

(* "except Exception as e: print(...)": main returns normally. *)
Except ==
    /\ pc = "except"
    /\ pc' = "exit"
    /\ exit_status' = 0
    /\ UNCHANGED <<gene_info, file_a_status, file_b_status, gene_dict, file_a_genes, file_b_genes,
                   expanded_file_a, todo, output, written, exc, trace, calls>>

Next ==
    \/ ParseArgs
    \/ LoadGeneInfo
    \/ ReadFileA
    \/ ReadFileB
    \/ CompareFiles
    \/ CompareGene
    \/ CompareReturn
    \/ WriteOutput
    \/ Except

Spec == Init /\ [][Next]_vars

----------------------------------------------------------------------------
(* The expansion applied repeatedly to its own result, on every index the  *)
(* loader can build and every gene set the reader can return.              *)

InitExpand ==
    /\ pc = "expand"
    /\ \E f \in {g \in GeneInfoFiles : g.status = "ok"} :
         /\ gene_info = f
         /\ gene_dict = LoadRows(f.rows, <<>>)
    /\ \E f \in {g \in GeneFiles : g.status = "ok"} :
         file_a_genes = ReadLines(f.lines)
    /\ file_a_status = "ok"
    /\ file_b_status = "unread"
    /\ file_b_genes = {}
    /\ expanded_file_a = {}
    /\ todo = {}
    /\ output = <<>>
    /\ written = NoFile
    /\ exc = "none"
    /\ exit_status = -1
    /\ trace = <<>>
    /\ calls = 0

ExpandCall ==
    /\ pc = "expand"
    /\ calls < MaxCalls
    /\ expanded_file_a' =
         expand_gene_set_with_synonyms(
             IF calls = 0 THEN file_a_genes ELSE expanded_file_a, gene_dict)
    /\ calls' = calls + 1
    /\ UNCHANGED <<pc, gene_info, file_a_status, file_b_status, gene_dict,
                   file_a_genes, file_b_genes, todo, output, written, exc,
                   exit_status, trace>>

NextExpand == ExpandCall

SpecExpand == InitExpand /\ [][NextExpand]_vars

----------------------------------------------------------------------------
(* Properties of the expansion *)

KeysOf(d) == {d[i].key : i \in 1..Len(d)}

(* S together with the synonym sets of the members of S that are keys. *)
OneHop(S, d) == S \cup UNION { DictGet(d, g) : g \in S \cap KeysOf(d) }

(* C5: the expansion of S is exactly S united with the synonym sets of the *)
(* members of S that are canonical keys: every input gene is kept, the     *)
(* result is at least as large as S, and everything added is a synonym of  *)
(* a key that is itself a member of S.                                     *)
C5_ExpandIsOneHop ==
    calls = 1 =>
        /\ expanded_file_a = OneHop(file_a_genes, gene_dict)
        /\ file_a_genes \subseteq expanded_file_a
        /\ Cardinality(expanded_file_a) >= Cardinality(file_a_genes)
        /\ \A g \in expanded_file_a \ file_a_genes :
              \E i \in 1..Len(gene_dict) :
                  gene_dict[i].key \in file_a_genes /\ g \in gene_dict[i].syns

(* A member of S is listed only as a synonym; its key and a sibling stay out. *)
C5_Witness ==
    /\ calls = 1
    /\ \E g \in file_a_genes, i \in 1..Len(gene_dict) :
         /\ g \notin KeysOf(gene_dict)
         /\ g \in gene_dict[i].syns
         /\ gene_dict[i].key \notin expanded_file_a
         /\ gene_dict[i].syns \ expanded_file_a # {}

(* C2 as stated: a second expansion never changes the result of the first. *)
C2_Idempotent ==
    [][calls >= 1 => expanded_file_a' = expanded_file_a]_vars

(* Every synonym that is itself a key brings nothing beyond the entry it   *)
(* is listed in.                                                           *)
OneHopClosed(d) ==
    \A i, j \in 1..Len(d) :
        d[j].key \in d[i].syns => d[j].syns \subseteq ({d[i].key} \cup d[i].syns)

(* C2 amended: a second expansion never removes anything, and it changes   *)
(* nothing when every synonym that is itself a key has its own synonyms    *)
(* inside the entry that lists it.                                         *)
C2_IdempotentWhenClosed ==
    [][calls >= 1 =>
          /\ expanded_file_a \subseteq expanded_file_a'
          /\ OneHopClosed(gene_dict) => expanded_file_a' = expanded_file_a]_vars

(* Two expansions done on a closed index in which a synonym is also a key, *)
(* the first of which added something.                                     *)
C2_Witness ==
    /\ calls = 2
    /\ OneHopClosed(gene_dict)
    /\ \E i, j \in 1..Len(gene_dict) :
         i # j /\ gene_dict[j].key \in gene_dict[i].syns
    /\ expanded_file_a # file_a_genes

----------------------------------------------------------------------------
(* Properties of the run *)

Matches(e, g) == g = e.key \/ g \in e.syns

(* The index entries, by position, that gene g matches. *)
MatchIdx(g) == {i \in 1..Len(gene_dict) : Matches(gene_dict[i], g)}

Least(S) == CHOOSE x \in S : \A y \in S : x <= y

(* The expansion of file A, stated from the inputs. *)
ExpandedA == OneHop(file_a_genes, gene_dict)

Records == {output[i] : i \in 1..Len(output)}

(* The sequences that list every member of S once, in ascending order. *)
AscendingListings(S) ==
    { s \in [1..Cardinality(S) -> S] :
        /\ Range(s) = S
        /\ \A i \in 1..(Len(s) - 1) : StrLess(s[i], s[i + 1]) }

(* C1 as stated: a gene of B that matches no index entry is reported with  *)
(* empty Synonyms and Present_in_A equal to its membership in expanded A.  *)
C1_UnmatchedPresence ==
    \A r \in Records :
        MatchIdx(r.Gene) = {} =>
            /\ r.Synonyms = <<>>
            /\ r.Present_in_A = Str(r.Gene \in ExpandedA)

(* C4: every gene of B gets exactly one record: while the loop runs the    *)
(* genes already reported and the genes still to do partition B, and when  *)
(* compare_files returns the Gene fields list B with no repetition.        *)
C4_OneRecordPerGene ==
    /\ pc = "compare_loop" =>
         /\ {r.Gene : r \in Records} \cup todo = file_b_genes
         /\ {r.Gene : r \in Records} \cap todo = {}
         /\ Len(output) = Cardinality({r.Gene : r \in Records})
    /\ pc = "write" =>
         /\ {r.Gene : r \in Records} = file_b_genes
         /\ Len(output) = Cardinality(file_b_genes)

(* compare_files has returned for a B with a matched and an unmatched gene. *)
C4_Witness ==
    /\ pc = "write"
    /\ \E g, h \in file_b_genes : MatchIdx(g) # {} /\ MatchIdx(h) = {}

(* C6: for a gene of B that matches an index entry, Present_in_A is "True" *)
(* exactly when the key or a synonym of the entry used, the first matching *)
(* one, is in the expansion of A, and "False" otherwise.                   *)
C6_PresentMatched ==
    \A r \in Records :
        MatchIdx(r.Gene) # {} =>
            LET e == gene_dict[Least(MatchIdx(r.Gene))]
            IN  /\ r.Present_in_A \in {"True", "False"}
                /\ r.Present_in_A = "True" <=>
                       (e.key \in ExpandedA \/ e.syns \cap ExpandedA # {})

(* A gene that is not itself in expanded A is reported present through a   *)
(* member of its entry, and another matched gene is reported absent.       *)
C6_Witness ==
    /\ \E r \in Records :
         /\ MatchIdx(r.Gene) # {}
         /\ r.Gene \notin ExpandedA
         /\ r.Present_in_A = "True"
    /\ \E r \in Records :
         /\ MatchIdx(r.Gene) # {}
         /\ r.Present_in_A = "False"

(* C7: the Synonyms field lists the key and synonyms of the entry used,    *)
(* gene_b excluded, once each in ascending order and joined by '|'; it is  *)
(* empty when nothing is left (also for an unmatched gene), and gene_b is  *)
(* never one of its pieces.                                                *)
C7_SynonymsField ==
    \A r \in Records :
        LET class == IF MatchIdx(r.Gene) = {} THEN {r.Gene}
                     ELSE LET e == gene_dict[Least(MatchIdx(r.Gene))]
                          IN  {e.key} \cup e.syns
            others == class \ {r.Gene}
        IN  /\ \E s \in AscendingListings(others) : r.Synonyms = Join(s)
            /\ others = {} => r.Synonyms = <<>>
            /\ r.Gene \notin Range(Split(r.Synonyms))

(* A record of a matched gene whose class has two other members, the       *)
(* longer of which sorts first.                                            *)
C7_Witness ==
    \E r \in Records :
        /\ MatchIdx(r.Gene) # {}
        /\ \E p, q \in Range(Split(r.Synonyms)) : Len(p) < Len(q) /\ StrLess(q, p)

(* The reference table could not be read or parsed, or a gene list could   *)
(* not be read.                                                            *)
InputFailed ==
    \/ gene_info.status \in {"unreadable", "missing_columns"}
    \/ file_a_status = "unreadable"
    \/ file_b_status = "unreadable"

(* C3 as stated: a run whose input failed ends with a non-zero status, and *)
(* a run ends with status zero only once the output has been written.      *)
C3_ExitStatus ==
    pc = "exit" =>
        /\ InputFailed => exit_status # 0
        /\ exit_status = 0 => written # NoFile

(* The row of the table, by position, as load_gene_info is meant to store  *)
(* it: empty pieces dropped.                                               *)
NonEmptyPieces(cell) ==
    LET pieces == Split(cell)
    IN  { Lower(Strip(pieces[i])) :
            i \in {j \in 1..Len(pieces) : Strip(pieces[j]) # <<>>} }

(* The rows that are the last of the table with their key. *)
LastRows ==
    {i \in 1..Len(gene_info.rows) :
        \A j \in (i + 1)..Len(gene_info.rows) :
            RowKey(gene_info.rows[j].Symbol) # RowKey(gene_info.rows[i].Symbol)}

(* C8 as stated: after loading, every row's key is in the index, the       *)
(* synonym set stored for it is the set of non-empty trimmed lowercased    *)
(* pieces of the (last) row with that key, and no synonym set holds the    *)
(* empty string.                                                           *)
C8_NonEmptyPieces ==
    gene_info.status = "ok" =>
        /\ \A i \in 1..Len(gene_info.rows) :
              HasKey(gene_dict, RowKey(gene_info.rows[i].Symbol))
        /\ \A i \in LastRows :
              DictGet(gene_dict, RowKey(gene_info.rows[i].Symbol))
                  = NonEmptyPieces(gene_info.rows[i].Synonyms)
        /\ \A i \in 1..Len(gene_dict) : <<>> \notin gene_dict[i].syns

StageOrder ==
    <<"load_gene_info", "read_file_a", "read_file_b", "compare_files", "write_output">>

(* The stage that consumed the input that failed. *)
FailedStage ==
    CASE gene_info.status \in {"unreadable", "missing_columns"} -> "load_gene_info"
      [] file_a_status = "unreadable" -> "read_file_a"
      [] file_b_status = "unreadable" -> "read_file_b"

(* C9: the stages run in the order load, read A, read B, compare, write;   *)
(* once an input has failed the run is in its error handler or has ended,  *)
(* the failing stage is the last one that ran, no comparison was made and  *)
(* no output was written.                                                  *)
C9_ErrorsAreFatal ==
    /\ Len(trace) <= Len(StageOrder)
    /\ trace = SubSeq(StageOrder, 1, Len(trace))
    /\ InputFailed =>
         /\ pc \in {"except", "exit"}
         /\ exc # "none"
         /\ trace[Len(trace)] = FailedStage
         /\ "compare_files" \notin Range(trace)
         /\ output = <<>>
         /\ written = NoFile

(* The run has ended after file B could not be read. *)
C9_Witness ==
    /\ pc = "exit"
    /\ gene_info.status = "ok"
    /\ file_a_status = "ok"
    /\ file_b_status = "unreadable"

RowEntry(row) == [key |-> RowKey(row.Symbol), syns |-> RowSynonyms(row.Synonyms)]

(* The rows of the table, by position, that gene g matches. *)
MatchRows(g) ==
    {i \in 1..Len(gene_info.rows) : Matches(RowEntry(gene_info.rows[i]), g)}

(* The record of gene g made from entry e alone. *)
RecordFrom(e, g) ==
    [Gene |-> g,
     Synonyms |-> Join(Sorted(({e.key} \cup e.syns) \ {g})),
     Present_in_A |-> Str(({e.key} \cup e.syns) \cap ExpandedA # {})]

(* C10 as stated: a gene that matches several rows of the table is         *)
(* reported from the earliest matching row alone.                          *)
C10_FirstRowWins ==
    \A r \in Records :
        Cardinality(MatchRows(r.Gene)) >= 2 =>
            r = RecordFrom(RowEntry(gene_info.rows[Least(MatchRows(r.Gene))]), r.Gene)

NoDuplicateSymbols ==
    \A i, j \in 1..Len(gene_info.rows) :
        i # j => RowKey(gene_info.rows[i].Symbol) # RowKey(gene_info.rows[j].Symbol)

FirstRowOf(k) ==
    Least({i \in 1..Len(gene_info.rows) : RowKey(gene_info.rows[i].Symbol) = k})

(* C10 amended: the index lists the keys in the order of their first row,  *)
(* each with the synonyms of its last row; a gene that matches several     *)
(* index entries is reported from the earliest matching entry alone, which *)
(* is the earliest matching row when no canonical symbol is repeated.      *)
C10_FirstEntryWins ==
    gene_info.status = "ok" =>
        /\ \A i \in 1..Len(gene_dict) :
              /\ \E j \in LastRows : gene_dict[i] = RowEntry(gene_info.rows[j])
              /\ \A j \in 1..Len(gene_dict) :
                    i < j => FirstRowOf(gene_dict[i].key) < FirstRowOf(gene_dict[j].key)
        /\ \A r \in Records :
              /\ Cardinality(MatchIdx(r.Gene)) >= 2 =>
                    r = RecordFrom(gene_dict[Least(MatchIdx(r.Gene))], r.Gene)
              /\ (NoDuplicateSymbols /\ Cardinality(MatchRows(r.Gene)) >= 2) =>
                    r = RecordFrom(RowEntry(gene_info.rows[Least(MatchRows(r.Gene))]), r.Gene)

(* A gene matches two index entries whose records differ. *)
C10_Witness ==
    \E r \in Records :
        /\ Cardinality(MatchIdx(r.Gene)) >= 2
        /\ \E i \in MatchIdx(r.Gene) : RecordFrom(gene_dict[i], r.Gene) # r

====
